---- MODULE Spec2Model ----
(***************************************************************************)
(* Gesture-driven particle experience: the App stage/gesture controller    *)
(* (src/unnamed/part_000, second App version), the HandDetector gesture    *)
(* callback (src/components/HandDetector.tsx) and the ParticleScene        *)
(* animator (src/unnamed/part_001) with the shape generators               *)
(* (src/utils/shapes.ts, second version).                                  *)
(*                                                                         *)
(* One action is one browser event (a button handler, one polling          *)
(* iteration of the detector, one animation frame) together with the React *)
(* commit it causes: the batched state updates of the handler, the effects *)
(* of ParticleScene (children first), the effect of App, and the second    *)
(* commit that the App effect's own state update causes.  State updates    *)
(* made in one handler are batched into one render (React 18 batching).    *)
(***************************************************************************)
EXTENDS Integers, Sequences, FiniteSets, TLC

\* ------------------------------------------------------------------ enums
\* HandGesture (types.ts is not part of src/; the three members are the ones
\* the code uses).
HandGesture == [NONE |-> "NONE", OPEN |-> "OPEN", CLOSED |-> "CLOSED"]

Gestures == {HandGesture.NONE, HandGesture.OPEN, HandGesture.CLOSED}

\* AppStage (types.ts is not part of src/).
AppStage == [INTRO |-> "INTRO", EARTH |-> "EARTH", EVEREST |-> "EVEREST",
             NAME |-> "NAME", HEART |-> "HEART", FIREWORKS |-> "FIREWORKS"]

\* STAGE_ORDER, indexed from 0 as in the code: STAGE_ORDER[i] is StageAt(i).
STAGE_ORDER == << AppStage.INTRO, AppStage.EARTH, AppStage.EVEREST,
                  AppStage.NAME, AppStage.HEART, AppStage.FIREWORKS >>

StageAt(i) == STAGE_ORDER[i + 1]

Stages == { STAGE_ORDER[k] : k \in 1..Len(STAGE_ORDER) }

\* COLORS (constants.ts is not part of src/): one colour per key, the hex
\* values are abstract tokens.
COLORS == [DEFAULT |-> "#default", EARTH |-> "#earth", EVEREST |-> "#everest",
           NAME |-> "#name", HEART |-> "#heart", FIREWORKS |-> "#fireworks"]

\* The values the colour input can deliver: a colour that is no stage's
\* default, and one that is.
PickableColors == {"#picked", COLORS.HEART}

\* ------------------------------------------------------------- numbers
\* Float32 values are fixed-point integers: positions and velocities in
\* thousandths of a unit, angles in thousandths of a radian, time in
\* milliseconds.  Division rounds toward zero; products are ordered so that
\* every intermediate value stays below 2^31.
Unit == 10 * 10 * 10

Abs(x) == IF x < 0 THEN -x ELSE x

Div(a, b) == IF a >= 0 THEN a \div b ELSE -((-a) \div b)

\* Math.PI, in thousandths of a radian.
PiMilli == 3142

\* Math.sin on [0, pi] (Bhaskara's rational approximation, error < 0.002).
SinHalfTurn(y) ==
    LET q == y * (PiMilli - y)
    IN  Div(16 * q, Div(5 * PiMilli * PiMilli - 4 * q, Unit))

\* Math.sin of an angle in thousandths of a radian; the result in thousandths.
Sin(x) ==
    LET y == x % (2 * PiMilli)
    IN  IF y <= PiMilli THEN SinHalfTurn(y) ELSE -SinHalfTurn(y - PiMilli)

\* Math.cos.
Cos(x) == Sin(x + PiMilli \div 2)

RECURSIVE SqrtSearch(_, _, _)
SqrtSearch(n, lo, hi) ==
    IF lo >= hi THEN lo
    ELSE LET mid == (lo + hi + 1) \div 2
         IN  IF mid * mid <= n THEN SqrtSearch(n, mid, hi)
                               ELSE SqrtSearch(n, lo, mid - 1)

\* Math.sqrt of a value in thousandths (0 <= v <= 1); the result in
\* thousandths.
Sqrt(v) == SqrtSearch(v * Unit, 0, v + Unit)

RECURSIVE ExpSeries(_, _, _, _)
ExpSeries(x, k, term, acc) ==
    IF term = 0 \/ k > 24 THEN acc
    ELSE LET t1 == Div(term * x, Unit * k)
         IN  ExpSeries(x, k + 1, t1, acc + t1)

\* Math.exp(-x) for x >= 0 in thousandths; the result in thousandths (the
\* series of exp(x) is summed in ten-thousandths).
ExpNeg(x) == Div(Unit * 10 * Unit, ExpSeries(x, 1, 10 * Unit, 10 * Unit))

\* Math.random() is a congruential generator with hidden state seed in
\* 0..RandMod-1; the k-th call after state s returns a multiple of 1/RandMod
\* in [0, 1), here in thousandths.
RandMod == 4

Rand(s, k) == (((s + 5 * k) % RandMod) * Unit) \div RandMod

\* The generator's state after n calls.
Advance(s, n) == (s + 5 * n) % RandMod

\* new Float32Array(n): n zeros, indexed from 0.
Float32Array(n) == [k \in 0..(n - 1) |-> 0]

Length(arr) == Cardinality(DOMAIN arr)

\* Float32Array.prototype.set(src): copies src over the start of arr; a
\* source longer than arr throws a RangeError and copies nothing.
ArraySet(arr, src) ==
    IF Length(src) > Length(arr) THEN arr
    ELSE [k \in DOMAIN arr |-> IF k < Length(src) THEN src[k] ELSE arr[k]]

\* ----------------------------------------------------- shape generators
\* PARTICLE_COUNT (constants.ts is not part of src/; the value is scaled down).
PARTICLE_COUNT == 3

\* The golden angle Math.PI * (3 - Math.sqrt(5)), in thousandths of a radian.
GoldenAngle == 2400

\* noise(x, y, z) = sin(10 x) * cos(10 y) * sin(10 z).
noise(x, y, z) == Div(Div(Sin(10 * x) * Cos(10 * y), Unit) * Sin(10 * z), Unit)

\* Fill(positions, f): the loops of the generators write positions[k] = f[k]
\* for the indices the buffer has.
Fill(positions, f(_)) == [k \in DOMAIN positions |-> f(k)]

\* A sphere whose inclinations step by 2 / count (sensitivity of C21).
Inclination_StepsByCount(i, count) ==
    Unit - Div(i * Unit, count) * 2

\* The inclination of point i: "const y = 1 - (i / (count - 1)) * 2".
Inclination(i, count) ==
    Unit - Div(i * Unit, count - 1) * 2

\* generateSphere(count, radius), radius in whole units.
generateSphere(count, radius) ==
    LET positions == Float32Array(count * 3)
        Coord(k) ==
            LET i == k \div 3
                y == Inclination(i, count)
                radiusAtY == Sqrt(Unit - Div(y * y, Unit))
                theta == GoldenAngle * i
                x == Div(Cos(theta) * radiusAtY, Unit)
                z == Div(Sin(theta) * radiusAtY, Unit)
                n == Abs(noise(x, y, z))
                r == radius * Unit + (IF n > Unit \div 2 THEN n \div 2 ELSE 0)
            IN  CASE k % 3 = 0 -> Div(x * r, Unit)
                  [] k % 3 = 1 -> Div(y * r, Unit)
                  [] OTHER     -> Div(z * r, Unit)
    IN  Fill(positions, Coord)

\* generateEverest(count), with the random generator in state s: three calls
\* of Math.random() per particle.
generateEverest(count, s) ==
    LET positions == Float32Array(count * 3)
        Coord(k) ==
            LET i == k \div 3
                angle == Div(Rand(s, 3 * i) * 2 * PiMilli, Unit)
                r == Sqrt(Rand(s, 3 * i + 1)) * 9
                height == 10 * ExpNeg(Div(r * 4, 10)) - 4 * Unit
                          + Div((Rand(s, 3 * i + 2) - Unit \div 2) * 15, 10)
            IN  CASE k % 3 = 0 -> Div(Cos(angle) * r, Unit)
                  [] k % 3 = 1 -> height
                  [] OTHER     -> Div(Sin(angle) * r, Unit)
    IN  Fill(positions, Coord)

\* generateHeart(count): three calls of Math.random() per particle (t, u, z).
generateHeart(count, s) ==
    LET positions == Float32Array(count * 3)
        Coord(k) ==
            LET i == k \div 3
                t == Div(Rand(s, 3 * i) * 2 * PiMilli, Unit)
                sin == Sin(t)
                x == Div(16 * Div(sin * sin * sin, Unit * Unit) * 2, 10)
                y == Div((13 * Cos(t) - 5 * Cos(2 * t) - 2 * Cos(3 * t) - Cos(4 * t)) * 2, 10)
                zScale == Abs(x) \div 2 + Unit
                z == Div((Rand(s, 3 * i + 2) - Unit \div 2) * 2 * zScale, Unit)
            IN  CASE k % 3 = 0 -> x
                  [] k % 3 = 1 -> y + Unit
                  [] OTHER     -> z
    IN  Fill(positions, Coord)

\* The side of the off-screen canvas of generateText.
TextCanvasSize == 512

\* The brightness a pixel's red channel must exceed.
TextThreshold == 100

\* What the canvas can give generateText: no 2D context, or the pixels of the
\* rendered text as << pixel index, red channel >> pairs in index order (the
\* pixels not listed are black).
Canvases ==
    { [context |-> FALSE, pixels |-> << >>],
      [context |-> TRUE,  pixels |-> << >>],
      [context |-> TRUE,  pixels |-> << <<1000, 100>> >>],
      [context |-> TRUE,  pixels |-> << <<1000, 101>>, <<131328, 255>> >>] }

RECURSIVE ValidPixels_AtThreshold(_, _)
\* A faulty sampling loop that also takes the pixels at the threshold
\* (sensitivity of C22).
ValidPixels_AtThreshold(pixels, size) ==
    IF pixels = << >> THEN << >>
    ELSE LET idx == Head(pixels)[1]
             rest == ValidPixels_AtThreshold(Tail(pixels), size)
         IN  IF Head(pixels)[2] >= TextThreshold
             THEN << (idx % size) - size \div 2, size \div 2 - idx \div size >> \o rest
             ELSE rest

RECURSIVE ValidPixels(_, _)
\* The sampling loop: x, y of every pixel brighter than the threshold.
ValidPixels(pixels, size) ==
    IF pixels = << >> THEN << >>
    ELSE LET idx == Head(pixels)[1]
             rest == ValidPixels(Tail(pixels), size)
         IN  IF Head(pixels)[2] > TextThreshold
             THEN << (idx % size) - size \div 2, size \div 2 - idx \div size >> \o rest
             ELSE rest

\* The number of Math.random() calls generateText makes.
TextDraws(count, canvas) ==
    IF canvas.context /\ ValidPixels(canvas.pixels, TextCanvasSize) # << >>
    THEN 2 * count ELSE 0

\* A faulty generateText whose fallback without a 2D context has one number
\* per particle instead of three (sensitivity of C9).
generateText_Short(count, canvas, s) ==
    IF ~canvas.context THEN Float32Array(count)
    ELSE Float32Array(count * 3)

\* generateText(count) on a canvas.
generateText(count, canvas, s) ==
    IF ~canvas.context THEN Float32Array(count * 3)
    ELSE LET validPixels == ValidPixels(canvas.pixels, TextCanvasSize)
             positions == Float32Array(count * 3)
             Coord(k) ==
                 LET i == k \div 3
                     randomIdx == Div(Rand(s, 2 * i) * (Len(validPixels) \div 2), Unit) * 2
                 IN  CASE k % 3 = 0 -> validPixels[randomIdx + 1] * 40
                       [] k % 3 = 1 -> validPixels[randomIdx + 2] * 40
                       [] OTHER     -> (Rand(s, 2 * i + 1) - Unit \div 2) \div 2
         IN  IF Len(validPixels) = 0 THEN positions
             ELSE Fill(positions, Coord)

\* generateRandom(count): three calls of Math.random() per particle.
generateRandom(count, s) ==
    LET positions == Float32Array(count * 3)
        Coord(k) == (Rand(s, k) - Unit \div 2) * 40
    IN  Fill(positions, Coord)

\* The shapes memo of ParticleScene, built once with the random generator in
\* state s; the generators run in the order of the object literal.
Shapes(s, canvas) ==
    LET s1 == Advance(s, 3 * PARTICLE_COUNT)
        s2 == Advance(s1, 3 * PARTICLE_COUNT)
        s3 == Advance(s2, TextDraws(PARTICLE_COUNT, canvas))
        s4 == Advance(s3, 3 * PARTICLE_COUNT)
    IN  [INTRO     |-> generateRandom(PARTICLE_COUNT, s),
         EARTH     |-> generateSphere(PARTICLE_COUNT, 4),
         EVEREST   |-> generateEverest(PARTICLE_COUNT, s1),
         NAME      |-> generateText(PARTICLE_COUNT, canvas, s2),
         HEART     |-> generateHeart(PARTICLE_COUNT, s3),
         FIREWORKS |-> generateRandom(PARTICLE_COUNT, s4)]

\* The number of Math.random() calls the memo makes.
ShapesDraws(canvas) == 12 * PARTICLE_COUNT + TextDraws(PARTICLE_COUNT, canvas)

\* -------------------------------------------------- gesture classifier
\* A landmark is a point << x, y >> of the image, on an integer grid.
Point(x, y) == << x, y >>

\* The square of Math.hypot(a.x - b.x, a.y - b.y).
HypotSquared(a, b) ==
    (a[1] - b[1]) * (a[1] - b[1]) + (a[2] - b[2]) * (a[2] - b[2])

\* The fingertip landmarks: index, middle, ring, pinky.
Tips == << 8, 12, 16, 20 >>

\* A faulty fold test that also counts a tip exactly on the threshold
\* (sensitivity of C11).
Folded_OnThreshold(lm, tip) ==
    100 * HypotSquared(lm[tip], lm[0]) <= 121 * HypotSquared(lm[9], lm[0])

\* "dist < foldThreshold" with foldThreshold = handSize * 1.1: both sides
\* are distances, so the comparison is made on their squares
\* (dist^2 < 1.21 * handSize^2).
Folded(lm, tip) ==
    100 * HypotSquared(lm[tip], lm[0]) < 121 * HypotSquared(lm[9], lm[0])

RECURSIVE CountFolded(_, _)
\* tips.forEach(tip => { if (dist < foldThreshold) foldedFingers++ }) over
\* the first n tips.
CountFolded(lm, n) ==
    IF n = 0 THEN 0
    ELSE CountFolded(lm, n - 1) + (IF Folded(lm, Tips[n]) THEN 1 ELSE 0)

\* The classification of results.landmarks, the hands detectForVideo
\* returned.
Classify(landmarks) ==
    IF Len(landmarks) > 0
    THEN LET lm == landmarks[1]
             foldedFingers == CountFolded(lm, Len(Tips))
         IN  IF foldedFingers >= 3 THEN HandGesture.CLOSED ELSE HandGesture.OPEN
    ELSE HandGesture.NONE

\* A hand: the wrist w, the middle finger base at w + m, the four tips at
\* w + t[1..4]; the landmarks the classifier does not read are left out.
Hand(w, m, t) ==
    [i \in {0, 9, 8, 12, 16, 20} |->
        CASE i = 0  -> w
          [] i = 9  -> Point(w[1] + m[1], w[2] + m[2])
          [] i = 8  -> Point(w[1] + t[1][1], w[2] + t[1][2])
          [] i = 12 -> Point(w[1] + t[2][1], w[2] + t[2][2])
          [] i = 16 -> Point(w[1] + t[3][1], w[2] + t[3][2])
          [] OTHER  -> Point(w[1] + t[4][1], w[2] + t[4][2])]

\* Tip offsets: on the wrist, inside the fold threshold of a hand of size
\* 10 (distance^2 117 < 121), outside it (130 > 121).
TipOffsets == { Point(0, 0), Point(6, 9), Point(7, 9) }

\* Hands of size 10 with every placement of the four tips, and hands
\* elsewhere in the image, of size 10 in another orientation and of size 0
\* (degenerate), with the four tips alike.
Hands ==
    { Hand(Point(0, 0), Point(0, 10), t) : t \in [1..4 -> TipOffsets] }
    \cup { Hand(Point(50, 40), m, [i \in 1..4 |-> o]) :
              m \in { Point(6, 8), Point(0, 0) }, o \in TipOffsets }

\* What one call of detectForVideo can do: throw, or return no hand or one
\* hand (numHands: 1).  A polling iteration can also find the video without
\* dimensions and skip the call.
NoVideo == [kind |-> "novideo", landmarks |-> << >>]

Throws == [kind |-> "throws", landmarks |-> << >>]

Detected(landmarks) == [kind |-> "ok", landmarks |-> landmarks]

AllDetections ==
    { NoVideo, Throws, Detected(<< >>) } \cup { Detected(<< h >>) : h \in Hands }

\* One detection per outcome: no video, a throw, no hand, an open hand, a
\* fist.
Fist == Hand(Point(0, 0), Point(0, 10), [i \in 1..4 |-> Point(6, 9)])

OpenHand == Hand(Point(0, 0), Point(0, 10), [i \in 1..4 |-> Point(7, 9)])

SomeDetections ==
    { NoVideo, Throws, Detected(<< >>), Detected(<< OpenHand >>), Detected(<< Fist >>) }

\* ---------------------------------------------------------------- state
VARIABLES
    currentStageIndex,   \* App: useState(0)
    gesture,             \* App: useState(HandGesture.NONE)
    particleColor,       \* App: useState(COLORS.DEFAULT)
    hasStarted,          \* App: useState(false)
    prevGesture,         \* App: useRef(HandGesture.NONE)
    lastGestureRef,      \* HandDetector: useRef(HandGesture.NONE)
    capturedHasStarted,  \* hasStarted as seen by the onGestureChange closure
                         \* that HandDetector's effect (deps []) captured
    status,              \* HandDetector: useState('loading')
    pollScheduled,       \* HandDetector: a requestAnimationFrame callback of
                         \* predictWebcam is pending
    running,             \* HandDetector effect: let running
    setup,               \* HandDetector effect: the await at which setupMediaPipe
                         \* and startWebcam stand
    handLandmarker,      \* HandDetector effect: let handLandmarker
    stream,              \* the MediaStream of getUserMedia
    srcObject,           \* videoElement.srcObject holds the stream
    timeout,             \* HandDetector effect: the 15 s timer is pending
    results,             \* history: what the last polling iteration detected
    lastEmitted,         \* history: the last value predictWebcam passed to
                         \* onGestureChange, "-" before the first
    lastCall,            \* history: the argument of the last call of
                         \* handleGestureChange, "-" before the first
    pointsAttached,      \* ParticleScene: pointsRef.current is not null
    shapes,              \* ParticleScene: the useMemo of the six shapes
    currentPositions,    \* ParticleScene: the position attribute's array
    targetPositions,     \* ParticleScene: useRef(new Float32Array(3 N))
    velocities,          \* ParticleScene: useRef(new Float32Array(3 N))
    explosionTime,       \* ParticleScene: useState(0), milliseconds
    rotationY,           \* pointsRef.current.rotation.y, in millionths of a radian
    played,              \* the audioManager calls made by the last step
    seed,                \* the state of Math.random()
    now,                 \* Date.now(), milliseconds
    frames,              \* the number of animation frames so far
    probe,               \* history: the last direct call of a shape generator
                         \* and what it returned
    lastEvent,           \* history: the handler that made the last step
    pre                  \* history: the App state before the last step

appVars == << currentStageIndex, gesture, particleColor, hasStarted, prevGesture >>

resourceVars == << handLandmarker, stream, srcObject >>

detectorVars == << lastGestureRef, capturedHasStarted, status, pollScheduled,
                   running, setup, handLandmarker, stream, srcObject, timeout,
                   results, lastEmitted >>

sceneVars == << targetPositions, velocities, explosionTime, played, seed >>

frameVars == << currentPositions, rotationY, now, frames >>

vars == << currentStageIndex, gesture, particleColor, hasStarted, prevGesture,
           lastGestureRef, capturedHasStarted, status, pollScheduled,
           running, setup, handLandmarker, stream, srcObject, timeout, results,
           lastEmitted, lastCall, pointsAttached, shapes,
           currentPositions, targetPositions, velocities, explosionTime,
           rotationY, played, seed, now, frames, probe, lastEvent, pre >>

\* The App state as one record, so that a handler, the commit and the effects
\* compose in the order React runs them.
AppState == [currentStageIndex |-> currentStageIndex, gesture |-> gesture,
             particleColor |-> particleColor, hasStarted |-> hasStarted,
             prevGesture |-> prevGesture]

\* What the effects of ParticleScene read and write, as one record.
SceneState == [targetPositions |-> targetPositions, velocities |-> velocities,
               explosionTime |-> explosionTime, played |-> << >>, seed |-> seed]

\* ------------------------------------------------------------ App handlers
\* startExperience, called through a closure in which hasStarted reads
\* closureStarted.
startExperience(a, closureStarted) ==
    IF ~closureStarted
    THEN [a EXCEPT !.hasStarted = TRUE,
                   !.currentStageIndex = 1,
                   !.particleColor = COLORS.EARTH]
    ELSE a

\* A faulty handleGestureChange that auto-starts on an open hand instead of a
\* closed fist (sensitivity of C5).
handleGestureChange_StartsOnOpen(a, newGesture, closureStarted) ==
    LET a1 == [a EXCEPT !.gesture = newGesture]
    IN  IF newGesture = HandGesture.OPEN /\ ~closureStarted
        THEN startExperience(a1, closureStarted)
        ELSE a1

\* A faulty handleGestureChange that drops a NONE arriving while the fist is
\* closed (sensitivity of C14).
handleGestureChange_DropsNone(a, newGesture, closureStarted) ==
    IF newGesture = HandGesture.NONE /\ a.gesture = HandGesture.CLOSED
    THEN a
    ELSE [a EXCEPT !.gesture = newGesture]

\* handleGestureChange(newGesture), called through a closure in which
\* hasStarted reads closureStarted.
handleGestureChange(a, newGesture, closureStarted) ==
    LET a1 == [a EXCEPT !.gesture = newGesture]
    IN  IF newGesture = HandGesture.CLOSED /\ ~closureStarted
        THEN startExperience(a1, closureStarted)
        ELSE a1

\* A faulty colour switch without the case for NAME (sensitivity of C6).
StageColor_NoName(stage, current) ==
    CASE stage = AppStage.EARTH     -> COLORS.EARTH
      [] stage = AppStage.EVEREST   -> COLORS.EVEREST
      [] stage = AppStage.HEART     -> COLORS.HEART
      [] stage = AppStage.FIREWORKS -> COLORS.FIREWORKS
      [] OTHER                      -> current

\* The colour that the updater of setCurrentStageIndex selects for a stage:
\* the switch has no case for INTRO, which leaves the colour as it is.
StageColor(stage, current) ==
    CASE stage = AppStage.EARTH     -> COLORS.EARTH
      [] stage = AppStage.EVEREST   -> COLORS.EVEREST
      [] stage = AppStage.NAME      -> COLORS.NAME
      [] stage = AppStage.HEART     -> COLORS.HEART
      [] stage = AppStage.FIREWORKS -> COLORS.FIREWORKS
      [] OTHER                      -> current

\* A faulty wrap that loops back to the intro (sensitivity of C28).
NextIndex_WrapsToIntro(prev) ==
    (prev + 1) % Len(STAGE_ORDER)

\* const nextIndex = next >= STAGE_ORDER.length ? 1 : next
NextIndex(prev) ==
    LET next == prev + 1
    IN  IF next >= Len(STAGE_ORDER) THEN 1 ELSE next

\* The updater passed to setCurrentStageIndex, with its setParticleColor.
AdvanceStage(a) ==
    LET nextIndex == NextIndex(a.currentStageIndex)
    IN  [a EXCEPT !.currentStageIndex = nextIndex,
                  !.particleColor = StageColor(StageAt(nextIndex), a.particleColor)]

\* A faulty effect that advances on the CLOSED to OPEN edge (sensitivity of
\* C29).
InteractionEffect_AdvancesOnOpen(a) ==
    IF ~a.hasStarted
    THEN [a EXCEPT !.prevGesture = a.gesture]
    ELSE LET a1 == IF a.prevGesture = HandGesture.CLOSED /\ a.gesture = HandGesture.OPEN
                   THEN AdvanceStage(a)
                   ELSE a
         IN  [a1 EXCEPT !.prevGesture = a.gesture]

\* The body of App's effect (deps [gesture, hasStarted]) on render state a.
InteractionEffect(a) ==
    IF ~a.hasStarted
    THEN [a EXCEPT !.prevGesture = a.gesture]
    ELSE LET a1 == IF a.prevGesture = HandGesture.OPEN /\ a.gesture = HandGesture.CLOSED
                   THEN AdvanceStage(a)
                   ELSE a
         IN  [a1 EXCEPT !.prevGesture = a.gesture]

\* The effect runs after a commit in which gesture or hasStarted changed.
AppEffect(old, a) ==
    IF a.gesture # old.gesture \/ a.hasStarted # old.hasStarted
    THEN InteractionEffect(a)
    ELSE a

\* ------------------------------------------------- ParticleScene effects
\* The first effect without its FIREWORKS guard, as in the earlier
\* ParticleScene (sensitivity of C8).
TargetEffect_Always(stage, sc) ==
    [sc EXCEPT !.targetPositions = ArraySet(sc.targetPositions, shapes[stage])]

\* The first effect (deps [stage, shapes]): the morph target of the stage.
TargetEffect(stage, sc) ==
    IF stage # AppStage.FIREWORKS
    THEN [sc EXCEPT !.targetPositions = ArraySet(sc.targetPositions, shapes[stage])]
    ELSE sc

\* The launch velocities: three calls of Math.random() per particle.
LaunchVelocities(vel, s) ==
    [k \in DOMAIN vel |->
        IF k >= 3 * PARTICLE_COUNT THEN vel[k]
        ELSE IF k % 3 = 1 THEN 5 * Unit + Rand(s, k) * 5
        ELSE (Rand(s, k) - Unit \div 2) \div 2]

\* A faulty second effect that resets the fireworks physics on the first
\* entry only (sensitivity of C15).
GestureEffect_ResetsOnce(stage, g, sc) ==
    IF g = HandGesture.CLOSED
    THEN [sc EXCEPT !.played = Append(sc.played, "converge")]
    ELSE IF g = HandGesture.OPEN /\ stage # AppStage.INTRO
    THEN LET sc1 == [sc EXCEPT !.played = Append(sc.played, "disperse")]
         IN  IF stage = AppStage.FIREWORKS /\ sc.explosionTime = 0
             THEN [sc1 EXCEPT !.explosionTime = now,
                              !.velocities = [k \in DOMAIN sc.velocities |->
                                  IF k >= 3 * PARTICLE_COUNT THEN sc.velocities[k]
                                  ELSE IF k % 3 = 1 THEN 5 * Unit + Rand(sc.seed, k) * 5
                                  ELSE (Rand(sc.seed, k) - Unit \div 2) \div 2],
                              !.seed = Advance(sc.seed, 3 * PARTICLE_COUNT)]
             ELSE sc1
    ELSE sc

\* A launch phase that lasts the first half second only, as the comment
\* "Phase 1: Launch (First 0.5s)" has it (sensitivity of C16).
LaunchPhase_HalfSecond(timeSinceExplosion) ==
    timeSinceExplosion < 500

\* "if (timeSinceExplosion < 0.6)".
LaunchPhase(timeSinceExplosion) ==
    timeSinceExplosion < 600

\* The second effect (deps [gesture, stage]): the audio triggers and the
\* reset of the fireworks physics.
GestureEffect(stage, g, sc) ==
    IF g = HandGesture.CLOSED
    THEN [sc EXCEPT !.played = Append(sc.played, "converge")]
    ELSE IF g = HandGesture.OPEN /\ stage # AppStage.INTRO
    THEN LET sc1 == [sc EXCEPT !.played = Append(sc.played, "disperse")]
         IN  IF stage = AppStage.FIREWORKS
             THEN [sc1 EXCEPT !.explosionTime = now,
                              !.velocities = LaunchVelocities(sc.velocities, sc.seed),
                              !.seed = Advance(sc.seed, 3 * PARTICLE_COUNT)]
             ELSE sc1
    ELSE sc

\* The effects of ParticleScene after a commit that changed its props from
\* (oldStage, oldGesture) to (stage, g).
SceneEffects(oldStage, oldGesture, stage, g, sc) ==
    LET sc1 == IF stage # oldStage THEN TargetEffect(stage, sc) ELSE sc
    IN  IF g # oldGesture \/ stage # oldStage
        THEN GestureEffect(stage, g, sc1)
        ELSE sc1

\* One event: the handler turned AppState into a1.  The commit of a1 runs
\* the effects of ParticleScene and then the effect of App, whose state
\* update is committed in turn.
Dispatch(a1, event) ==
    LET a0  == AppState
        sc1 == SceneEffects(StageAt(a0.currentStageIndex), a0.gesture,
                            StageAt(a1.currentStageIndex), a1.gesture, SceneState)
        a2  == AppEffect(a0, a1)
        sc2 == SceneEffects(StageAt(a1.currentStageIndex), a1.gesture,
                            StageAt(a2.currentStageIndex), a2.gesture, sc1)
    IN  /\ pointsAttached
        /\ currentStageIndex' = a2.currentStageIndex
        /\ gesture' = a2.gesture
        /\ particleColor' = a2.particleColor
        /\ hasStarted' = a2.hasStarted
        /\ prevGesture' = a2.prevGesture
        /\ targetPositions' = sc2.targetPositions
        /\ velocities' = sc2.velocities
        /\ explosionTime' = sc2.explosionTime
        /\ played' = sc2.played
        /\ seed' = sc2.seed
        /\ lastEvent' = event
        /\ pre' = a0
        /\ UNCHANGED << pointsAttached, shapes, currentPositions, rotationY, now, frames,
                        probe >>

\* ------------------------------------------------------- useFrame callback
\* The frame deltas, in milliseconds.
Deltas == {16, 100}

\* The most frames of a behaviour that run the update.
MaxFrames == 1

\* The steps by which Date.now() advances, in milliseconds, and the last
\* instant of a behaviour.
ClockSteps == {600, 700}

MaxNow == 1700

\* A floor collision that never clamps (sensitivity of C18).
FloorCollision_Off(y) == y

\* The floor collision: "if (positions[i*3+1] < -10) positions[i*3+1] = -10".
FloorCollision(y) ==
    IF y < -10 * Unit THEN -10 * Unit ELSE y

\* A faulty fireworks branch that writes the scaled horizontal velocities of
\* the burst window back to the buffer (sensitivity of C30).
FireworksStep_StoresBurst(pos, vel, k, delta, timeSinceExplosion) ==
    LET i  == k \div 3
        launch == LaunchPhase(timeSinceExplosion)
        burst  == timeSinceExplosion < 700
        vy2 == IF burst THEN Div(vel[i * 3 + 1] - Div(49 * delta, 10), 2)
               ELSE vel[i * 3 + 1] - Div(49 * delta, 10)
        h2  == IF burst THEN Div(vel[k] * 11, 10) ELSE vel[k]
    IN  IF k % 3 = 1
        THEN [p |-> FloorCollision(pos[k] + Div((IF launch THEN vel[k] ELSE vy2) * delta, Unit)),
              v |-> IF launch THEN vel[k] ELSE vy2]
        ELSE [p |-> IF launch THEN pos[k] + Div(vel[k] * delta, Unit)
                    ELSE pos[k] + Div(h2 * delta * 2, Unit),
              v |-> IF launch THEN vel[k] ELSE h2]

\* The fireworks branch for coordinate k of the position buffer: the new
\* position and the new stored velocity of that coordinate.
FireworksStep(pos, vel, k, delta, timeSinceExplosion) ==
    LET i  == k \div 3
        vx == vel[i * 3]
        vy == vel[i * 3 + 1]
        vz == vel[i * 3 + 2]
        launch == LaunchPhase(timeSinceExplosion)
        burst  == timeSinceExplosion < 700
        vyG == vy - Div(49 * delta, 10)
        vy2 == IF burst THEN Div(vyG, 2) ELSE vyG
        vx2 == IF burst THEN Div(vx * 11, 10) ELSE vx
        vz2 == IF burst THEN Div(vz * 11, 10) ELSE vz
        py  == IF launch THEN pos[i * 3 + 1] + Div(vy * delta, Unit)
                         ELSE pos[i * 3 + 1] + Div(vy2 * delta, Unit)
    IN  CASE k % 3 = 0 ->
               [p |-> IF launch THEN pos[k] + Div(vx * delta, Unit)
                                ELSE pos[k] + Div(vx2 * delta * 2, Unit),
                v |-> vel[k]]
          [] k % 3 = 1 ->
               [p |-> FloorCollision(py),
                v |-> IF launch THEN vel[k] ELSE vy2]
          [] OTHER ->
               [p |-> IF launch THEN pos[k] + Div(vz * delta, Unit)
                                ELSE pos[k] + Div(vz2 * delta * 2, Unit),
                v |-> vel[k]]

\* The lerp of the standard morphing branch for coordinate k: the position
\* after "positions[k] += (t - p) * speed * delta".
LerpStep(pos, target, k, stage, isAggregating, delta, s) ==
    LET p == pos[k]
        speed10 == IF isAggregating THEN 40 ELSE 25
        t == IF isAggregating THEN target[k]
             ELSE IF stage = AppStage.INTRO
             THEN p + Div(Rand(s, k) - Unit \div 2, 10)
             ELSE target[k] * 2
    IN  p + Div(Div((t - p) * speed10, 10) * delta, Unit)

\* A faulty morphing branch that applies the rotation of the Earth stage at
\* every stage (sensitivity of C20).
MorphStep_RotatesAlways(pos, target, k, stage, aggregating, delta, s) ==
    LET i == k \div 3
        x == LerpStep(pos, target, i * 3, stage, aggregating, delta, s)
        z == LerpStep(pos, target, i * 3 + 2, stage, aggregating, delta, s)
        rotSpeed == delta \div 2
    IN  IF aggregating /\ k % 3 # 1
        THEN IF k % 3 = 0
             THEN Div(x * Cos(rotSpeed) - z * Sin(rotSpeed), Unit)
             ELSE Div(x * Sin(rotSpeed) + z * Cos(rotSpeed), Unit)
        ELSE LerpStep(pos, target, k, stage, aggregating, delta, s)

\* A faulty morphing branch that rotates the Earth whatever the gesture
\* (sensitivity of C27).
MorphStep_RotatesWhenOpen(pos, target, k, stage, aggregating, delta, s) ==
    LET i == k \div 3
        x == LerpStep(pos, target, i * 3, stage, aggregating, delta, s)
        z == LerpStep(pos, target, i * 3 + 2, stage, aggregating, delta, s)
        rotSpeed == delta \div 2
    IN  IF stage = AppStage.EARTH /\ k % 3 # 1
        THEN IF k % 3 = 0
             THEN Div(x * Cos(rotSpeed) - z * Sin(rotSpeed), Unit)
             ELSE Div(x * Sin(rotSpeed) + z * Cos(rotSpeed), Unit)
        ELSE LerpStep(pos, target, k, stage, aggregating, delta, s)

\* The standard morphing branch for coordinate k, with the Earth rotation.
MorphStep(pos, target, k, stage, isAggregating, delta, s) ==
    LET i == k \div 3
        x == LerpStep(pos, target, i * 3, stage, isAggregating, delta, s)
        z == LerpStep(pos, target, i * 3 + 2, stage, isAggregating, delta, s)
        rotSpeed == delta \div 2
    IN  IF stage = AppStage.EARTH /\ isAggregating /\ k % 3 # 1
        THEN IF k % 3 = 0
             THEN Div(x * Cos(rotSpeed) - z * Sin(rotSpeed), Unit)
             ELSE Div(x * Sin(rotSpeed) + z * Cos(rotSpeed), Unit)
        ELSE LerpStep(pos, target, k, stage, isAggregating, delta, s)

\* "const isAggregating = gesture === HandGesture.CLOSED".
isAggregating(g) == g = HandGesture.CLOSED

\* A faulty mode test that looks at the stage only (sensitivity of C19).
isFireworks_AnyGesture(stage, g) ==
    stage = AppStage.FIREWORKS

\* "const isFireworks = stage === AppStage.FIREWORKS && gesture === OPEN".
isFireworks(stage, g) ==
    stage = AppStage.FIREWORKS /\ g = HandGesture.OPEN

\* A callback whose guard never returns early (sensitivity of C10).
PointsMissing_Never == FALSE

\* The null guard of the callback: "if (!pointsRef.current) return".
PointsMissing == ~pointsAttached

\* One animation frame: the callback of useFrame with the frame's delta in
\* milliseconds; a behaviour runs the update at most `most' times.
FrameWithin(delta, most) ==
    LET stage == StageAt(currentStageIndex)
        aggregating == isAggregating(gesture)
        fireworks == isFireworks(stage, gesture)
        timeSinceExplosion == now - explosionTime
        particles == { k \in DOMAIN currentPositions : k < 3 * PARTICLE_COUNT }
    IN  /\ lastEvent' = "frame"
        /\ pre' = AppState
        /\ played' = << >>
        /\ UNCHANGED << appVars, detectorVars, lastCall, pointsAttached, shapes,
                        targetPositions, explosionTime, now, probe >>
        /\ IF PointsMissing
           THEN UNCHANGED << currentPositions, velocities, rotationY, seed, frames >>
           ELSE /\ frames < most
                /\ frames' = frames + 1
                /\ currentPositions' =
                     [k \in DOMAIN currentPositions |->
                        IF k \notin particles THEN currentPositions[k]
                        ELSE IF fireworks
                        THEN FireworksStep(currentPositions, velocities, k, delta,
                                           timeSinceExplosion).p
                        ELSE MorphStep(currentPositions, targetPositions, k, stage,
                                       aggregating, delta, seed)]
                /\ velocities' =
                     [k \in DOMAIN velocities |->
                        IF fireworks /\ k < 3 * PARTICLE_COUNT
                        THEN FireworksStep(currentPositions, velocities, k, delta,
                                           timeSinceExplosion).v
                        ELSE velocities[k]]
                /\ seed' = IF ~fireworks /\ ~aggregating /\ stage = AppStage.INTRO
                           THEN Advance(seed, 3 * PARTICLE_COUNT)
                           ELSE seed
                /\ rotationY' = IF ~aggregating THEN rotationY + 50 * delta
                                ELSE rotationY

Frame(delta) == FrameWithin(delta, MaxFrames)

\* Time passes.  Date.now() is read only on entering FIREWORKS+OPEN and in
\* the frames of that mode, so the clock is advanced only there: elsewhere
\* its value cannot be observed.
Tick(dt) ==
    /\ StageAt(currentStageIndex) = AppStage.FIREWORKS
    /\ gesture = HandGesture.OPEN
    /\ now + dt <= MaxNow
    /\ now' = now + dt
    /\ lastEvent' = "tick"
    /\ pre' = AppState
    /\ played' = << >>
    /\ UNCHANGED << appVars, detectorVars, lastCall, pointsAttached, shapes,
                    currentPositions, targetPositions, velocities, explosionTime,
                    rotationY, seed, frames, probe >>

\* ------------------------------------------------- direct generator calls
\* The largest particle count of a direct call.
MaxCount == 12

\* No generator has been called directly.
NoCall == [fn |-> "-", count |-> 0, canvas |-> << >>, y |-> << >>, out |-> << >>]

\* generateSphere(count, 4) is called: the inclinations the loop computes and
\* the array it returns.
CallGenerateSphere(count) ==
    /\ probe' = [fn |-> "generateSphere", count |-> count, canvas |-> << >>,
                 y |-> [i \in 0..(count - 1) |-> Inclination(i, count)],
                 out |-> generateSphere(count, 4)]
    /\ lastEvent' = "generate"
    /\ UNCHANGED << appVars, detectorVars, lastCall, pointsAttached, shapes,
                    sceneVars, frameVars, pre >>

\* generateText(count) is called on a canvas, with Math.random() in state s.
CallGenerateText(count, canvas, s) ==
    /\ probe' = [fn |-> "generateText", count |-> count, canvas |-> canvas,
                 y |-> << >>, out |-> generateText(count, canvas, s)]
    /\ lastEvent' = "generate"
    /\ UNCHANGED << appVars, detectorVars, lastCall, pointsAttached, shapes,
                    sceneVars, frameVars, pre >>

\* ---------------------------------------------------------------- actions
\* The first commit: React attaches pointsRef and runs the mount effects of
\* ParticleScene (stage INTRO, gesture NONE), of App and of HandDetector,
\* whose effect stops at once on the file: protocol and otherwise calls
\* setupMediaPipe, which runs up to its first await, and arms the timer.
MountAt(protocol) ==
    LET sc1 == TargetEffect(StageAt(currentStageIndex), SceneState)
        sc2 == GestureEffect(StageAt(currentStageIndex), gesture, sc1)
        a1  == InteractionEffect(AppState)
    IN  /\ ~pointsAttached
        /\ pointsAttached' = TRUE
        /\ targetPositions' = sc2.targetPositions
        /\ velocities' = sc2.velocities
        /\ explosionTime' = sc2.explosionTime
        /\ played' = sc2.played
        /\ seed' = sc2.seed
        /\ prevGesture' = a1.prevGesture
        /\ lastEvent' = "mount"
        /\ pre' = AppState
        /\ IF protocol = "file:"
           THEN /\ status' = "manual"
                /\ UNCHANGED << running, setup, timeout >>
           ELSE /\ running' = TRUE
                /\ setup' = "import"
                /\ timeout' = TRUE
                /\ UNCHANGED status
        /\ UNCHANGED << currentStageIndex, gesture, particleColor, hasStarted,
                        lastGestureRef, capturedHasStarted, pollScheduled, results,
                        lastEmitted, resourceVars, lastCall, shapes, frameVars, probe >>

Mount == MountAt("https:")

\* A faulty predictWebcam that calls onGestureChange on every iteration
\* (sensitivity of C12).
Emit_Always(detectedGesture) ==
    /\ lastGestureRef' = detectedGesture
    /\ lastEmitted' = detectedGesture
    /\ lastCall' = detectedGesture
    /\ Dispatch(handleGestureChange(AppState, detectedGesture, capturedHasStarted),
                "detector")

\* The de-duplication of predictWebcam: the captured onGestureChange is
\* called only when the classification differs from lastGestureRef.current.
Emit(detectedGesture) ==
    IF detectedGesture # lastGestureRef
    THEN /\ lastGestureRef' = detectedGesture
         /\ lastEmitted' = detectedGesture
         /\ lastCall' = detectedGesture
         /\ Dispatch(handleGestureChange(AppState, detectedGesture, capturedHasStarted),
                     "detector")
    ELSE /\ Dispatch(AppState, "poll")
         /\ UNCHANGED << lastGestureRef, lastEmitted, lastCall >>

\* The body of predictWebcam past its first guard.  Without video dimensions
\* it only reschedules itself; a throw of detectForVideo leaves the function
\* before the classification, the call of onGestureChange and the
\* requestAnimationFrame of the next iteration.
PollBody(detection) ==
    /\ UNCHANGED << capturedHasStarted, running, timeout >>
    /\ CASE detection.kind = "novideo" ->
             /\ pollScheduled' = TRUE
             /\ Dispatch(AppState, "poll")
             /\ UNCHANGED << lastGestureRef, results, lastEmitted, lastCall >>
         [] detection.kind = "throws" ->
             /\ pollScheduled' = FALSE
             /\ Dispatch(AppState, "throw")
             /\ UNCHANGED << lastGestureRef, results, lastEmitted, lastCall >>
         [] OTHER ->
             /\ pollScheduled' = TRUE
             /\ results' = detection
             /\ Emit(Classify(detection.landmarks))

\* videoRef.current is not null: the component renders its <video> unless
\* the status is 'manual' or 'error'.
VideoPresent == status \in {"loading", "ready"}

\* A polling iteration of HandDetector: the requestAnimationFrame callback,
\* which returns at once, scheduling nothing, "if (!running ||
\* !videoRef.current)".
predictWebcam(detection) ==
    /\ pollScheduled
    /\ UNCHANGED << status, setup, resourceVars >>
    /\ IF running /\ VideoPresent
       THEN PollBody(detection)
       ELSE /\ pollScheduled' = FALSE
            /\ Dispatch(AppState, "stopped")
            /\ UNCHANGED << lastGestureRef, capturedHasStarted, running, timeout,
                            results, lastEmitted, lastCall >>

\* The video's loadeddata listener while the status is 'loading':
\* setStatus('ready') and the first polling iteration.  The listener exists
\* once every await of setupMediaPipe and startWebcam has resolved: the
\* landmarker is created, the stream is granted and attached to the video.
Loadeddata(detection) ==
    /\ running
    /\ status = "loading"
    /\ status' = "ready"
    /\ setup' = "started"
    /\ handLandmarker' = "open"
    /\ stream' = "live"
    /\ srcObject' = TRUE
    /\ PollBody(detection)

\* ------------------------------------------- HandDetector initialisation
\* One continuation of setupMediaPipe or startWebcam, or a timer callback:
\* nothing of App changes.
DetectorStep(event, nextSetup, nextStatus, landmarker, mediaStream, attached) ==
    /\ setup' = nextSetup
    /\ status' = nextStatus
    /\ handLandmarker' = landmarker
    /\ stream' = mediaStream
    /\ srcObject' = attached
    /\ Dispatch(AppState, event)
    /\ UNCHANGED << lastGestureRef, capturedHasStarted, results, lastEmitted, lastCall >>

\* The catch blocks: "if (running) setStatus('error')".
Caught ==
    /\ setup \in {"import", "fileset", "create", "camera"}
    /\ DetectorStep("setup", "done", IF running THEN "error" ELSE status,
                    handLandmarker, stream, srcObject)
    /\ UNCHANGED << running, timeout, pollScheduled >>

\* "await import('@mediapipe/tasks-vision')" resolves.
ImportResolved ==
    /\ setup = "import"
    /\ DetectorStep("setup", IF running THEN "fileset" ELSE "done", status,
                    handLandmarker, stream, srcObject)
    /\ UNCHANGED << running, timeout, pollScheduled >>

\* "await FilesetResolver.forVisionTasks(...)" resolves.
FilesetResolved ==
    /\ setup = "fileset"
    /\ DetectorStep("setup", IF running THEN "create" ELSE "done", status,
                    handLandmarker, stream, srcObject)
    /\ UNCHANGED << running, timeout, pollScheduled >>

\* A faulty continuation without the "if (!running)" that closes a
\* landmarker created after the teardown (sensitivity of C23).
LandmarkerCreated_KeepsOpen ==
    /\ setup = "create"
    /\ DetectorStep("setup", IF running /\ VideoPresent THEN "camera" ELSE "done",
                    status, "open", stream, srcObject)
    /\ UNCHANGED << running, timeout, pollScheduled >>

\* "handLandmarker = await HandLandmarker.createFromOptions(...)" resolves:
\* after a teardown the landmarker is closed at once; otherwise startWebcam
\* runs up to its await of getUserMedia, or returns without a video element.
LandmarkerCreated ==
    /\ setup = "create"
    /\ IF ~running
       THEN DetectorStep("setup", "done", status, "closed", stream, srcObject)
       ELSE DetectorStep("setup", IF VideoPresent THEN "camera" ELSE "done",
                         status, "open", stream, srcObject)
    /\ UNCHANGED << running, timeout, pollScheduled >>

\* "await navigator.mediaDevices.getUserMedia(...)" resolves: after a
\* teardown the tracks are stopped at once; otherwise the stream is attached
\* to the video element and the loadeddata listener is added.
StreamGranted ==
    /\ setup = "camera"
    /\ IF ~running
       THEN DetectorStep("setup", "done", status, handLandmarker, "stopped", FALSE)
       ELSE DetectorStep("setup", "listening", status, handLandmarker, "live", TRUE)
    /\ UNCHANGED << running, timeout, pollScheduled >>

\* The loadeddata event of the video element that startWebcam captured.
\* With the status still 'loading' it is Loadeddata; after the timer has set
\* 'error' the <video> is no longer rendered: the listener sets 'ready',
\* and its predictWebcam returns at once on videoRef.current = null; after
\* a teardown the listener does nothing.
LoadeddataListener(detection) ==
    /\ setup = "listening"
    /\ IF running /\ status = "loading"
       THEN Loadeddata(detection)
       ELSE /\ DetectorStep("setup", "started", IF running THEN "ready" ELSE status,
                            handLandmarker, stream, srcObject)
            /\ UNCHANGED << running, timeout, pollScheduled >>

\* The status that the timer's callback reads: the effect has deps [], so
\* the callback closes over the status of the first render.
capturedStatus == "loading"

\* The callback of setTimeout(..., 15000).
InitTimeout ==
    /\ timeout
    /\ timeout' = FALSE
    /\ DetectorStep("timeout", setup,
                    IF running /\ capturedStatus = "loading" THEN "error" ELSE status,
                    handLandmarker, stream, srcObject)
    /\ UNCHANGED << running, pollScheduled >>

\* The cleanup of the effect, at unmount.
Teardown ==
    /\ running
    /\ running' = FALSE
    /\ timeout' = FALSE
    /\ pollScheduled' = FALSE
    /\ DetectorStep("teardown", setup, status,
                    IF handLandmarker # "null" THEN "closed" ELSE handLandmarker,
                    IF srcObject THEN "stopped" ELSE stream,
                    srcObject)

\* The manual buttons: HOLD (onMouseDown / onTouchStart) gives CLOSED, its
\* release and the RELEASE button (onClick) give OPEN.  They are bound to the
\* handleGestureChange of the latest render.  While !hasStarted the intro
\* overlay (inset-0, z-40) lies over the panel (z-10): the pointer cannot
\* press HOLD, the keyboard can still click RELEASE.
ManualButton(newGesture) ==
    /\ newGesture = HandGesture.CLOSED => hasStarted
    /\ Dispatch(handleGestureChange(AppState, newGesture, hasStarted), "manual")
    /\ lastCall' = newGesture
    /\ UNCHANGED detectorVars

\* The Start button of the intro overlay, rendered while !hasStarted.
StartClick ==
    /\ ~hasStarted
    /\ Dispatch(startExperience(AppState, hasStarted), "start")
    /\ UNCHANGED << detectorVars, lastCall >>

\* The colour input's onChange.
ColorInput(c) ==
    /\ Dispatch([AppState EXCEPT !.particleColor = c], "color")
    /\ UNCHANGED << detectorVars, lastCall >>

\* The state after the first render: the refs and the memo are built, nothing
\* is committed yet.  Math.random() starts in one of the states of seeds.
InitFrom(seeds) ==
    /\ currentStageIndex = 0
    /\ gesture = HandGesture.NONE
    /\ particleColor = COLORS.DEFAULT
    /\ hasStarted = FALSE
    /\ prevGesture = HandGesture.NONE
    /\ lastGestureRef = HandGesture.NONE
    /\ capturedHasStarted = hasStarted
    /\ status = "loading"
    /\ pollScheduled = FALSE
    /\ running = FALSE
    /\ setup = "-"
    /\ handLandmarker = "null"
    /\ stream = "none"
    /\ srcObject = FALSE
    /\ timeout = FALSE
    /\ results = [kind |-> "-", landmarks |-> << >>]
    /\ lastEmitted = "-"
    /\ lastCall = "-"
    /\ pointsAttached = FALSE
    /\ \E s \in seeds, canvas \in Canvases :
          /\ shapes = Shapes(s, canvas)
          /\ seed = Advance(s, ShapesDraws(canvas))
    /\ currentPositions = Float32Array(PARTICLE_COUNT * 3)
    /\ targetPositions = Float32Array(PARTICLE_COUNT * 3)
    /\ velocities = Float32Array(PARTICLE_COUNT * 3)
    /\ explosionTime = 0
    /\ rotationY = 0
    /\ played = << >>
    /\ now = 1000
    /\ frames = 0
    /\ probe = NoCall
    /\ lastEvent = "init"
    /\ pre = [currentStageIndex |-> 0, gesture |-> HandGesture.NONE,
              particleColor |-> COLORS.DEFAULT, hasStarted |-> FALSE,
              prevGesture |-> HandGesture.NONE]

Init == InitFrom(0..(RandMod - 1))

\* The events of the controller: the commits, the gesture sources, the
\* overlay and the colour input.
Next ==
    \/ Mount
    \/ \E d \in SomeDetections : Loadeddata(d)
    \/ \E d \in SomeDetections : predictWebcam(d)
    \/ \E g \in {HandGesture.CLOSED, HandGesture.OPEN} : ManualButton(g)
    \/ StartClick
    \/ \E c \in PickableColors : ColorInput(c)

Spec == Init /\ [][Next]_vars

\* The animator: the frames, between the events that change its props.
FrameNext ==
    \/ Mount
    \/ \E g \in {HandGesture.CLOSED, HandGesture.OPEN} : ManualButton(g)
    \/ StartClick
    \/ \E delta \in Deltas : Frame(delta)
    \/ \E dt \in ClockSteps : Tick(dt)

FrameInit == InitFrom({0})

FrameSpec == FrameInit /\ [][FrameNext]_vars

\* The finale: the frames of FIREWORKS+OPEN, with the events that lead there
\* and a hand that leaves the camera's view and comes back.
FinaleDeltas == {16, 2000}

MaxFinaleFrames == 2

\* The clock steps of the finale: to the last instant of the launch phase
\* by the source's comment, to the burst window and past it.
FinaleClockSteps == {500, 600, 700}

FinaleDetections == {Detected(<< >>), Detected(<< OpenHand >>)}

\* The camera delivers its first frame, and the hand comes and goes, once the
\* finale stage is on show.
FinalePoll(d) ==
    /\ StageAt(currentStageIndex) = AppStage.FIREWORKS
    /\ \/ Loadeddata(d)
       \/ predictWebcam(d)

\* The buttons choose the stage before the frames under study begin; from
\* the first frame on they are left alone.
ButtonBeforeFrames(g) ==
    /\ frames = 0
    /\ ManualButton(g)

FinaleFrame(delta) ==
    /\ isFireworks(StageAt(currentStageIndex), gesture)
    /\ FrameWithin(delta, MaxFinaleFrames)

FinaleNext ==
    \/ Mount
    \/ StartClick
    \/ \E g \in {HandGesture.CLOSED, HandGesture.OPEN} : ButtonBeforeFrames(g)
    \/ \E d \in FinaleDetections : FinalePoll(d)
    \/ \E delta \in FinaleDeltas : FinaleFrame(delta)
    \/ \E dt \in FinaleClockSteps : Tick(dt)

FinaleSpec == FrameInit /\ [][FinaleNext]_vars

\* Convergence: a run of frames with the fist closed, the target fixed and
\* delta = 1/60 s, at the stage the buttons have chosen.
SixtiethOfSecond == Unit \div 60

ConvergeFrameLimit == 90

\* A tenth of a unit, in thousandths.
Epsilon == 100

ConvergeFrame ==
    /\ isAggregating(gesture)
    /\ FrameWithin(SixtiethOfSecond, ConvergeFrameLimit)

ConvergeNext ==
    \/ Mount
    \/ StartClick
    \/ \E g \in {HandGesture.CLOSED, HandGesture.OPEN} : ButtonBeforeFrames(g)
    \/ ConvergeFrame

ConvergeSpec == FrameInit /\ [][ConvergeNext]_vars

\* The shape generators, called with every count up to MaxCount.
GeneratorNext ==
    \/ \E count \in 2..MaxCount : CallGenerateSphere(count)
    \/ \E count \in 1..MaxCount, canvas \in Canvases, s \in 0..(RandMod - 1) :
          CallGenerateText(count, canvas, s)

GeneratorSpec == FrameInit /\ [][GeneratorNext]_vars

\* The life of the detector: its initialisation, its polling, its timer and
\* its teardown, in every order.
LifecycleNext ==
    \/ \E protocol \in {"https:", "file:"} : MountAt(protocol)
    \/ ImportResolved
    \/ FilesetResolved
    \/ LandmarkerCreated
    \/ StreamGranted
    \/ Caught
    \/ \E d \in SomeDetections : LoadeddataListener(d)
    \/ \E d \in SomeDetections : predictWebcam(d)
    \/ InitTimeout
    \/ Teardown

LifecycleSpec == FrameInit /\ [][LifecycleNext]_vars

\* The detector alone, on every detection of AllDetections.
DetectorNext ==
    \/ Mount
    \/ \E d \in AllDetections : Loadeddata(d)
    \/ \E d \in AllDetections : predictWebcam(d)

DetectorSpec == FrameInit /\ [][DetectorNext]_vars

\* ------------------------------------------------------------- controller
\* C1: after the experience has started, every gesture change from OPEN
\* directly to CLOSED, delivered by the manual buttons or by the HandDetector
\* callback, advances the stage index by exactly one position of STAGE_ORDER,
\* wrapping from the last stage to index 1.
C1_OpenToClosedAdvancesByOne ==
    (/\ lastEvent \in {"manual", "detector"}
     /\ pre.hasStarted
     /\ pre.gesture = HandGesture.OPEN
     /\ gesture = HandGesture.CLOSED)
    => currentStageIndex = (IF pre.currentStageIndex = Len(STAGE_ORDER) - 1
                            THEN 1 ELSE pre.currentStageIndex + 1)

\* C2: after the experience has started, a gesture delivered by the manual
\* buttons or by the callback HandDetector captured, which is not a change
\* from OPEN directly to CLOSED, leaves the stage index unchanged.
C2_OtherTransitionsKeepStage ==
    (/\ lastEvent \in {"manual", "detector"}
     /\ pre.hasStarted
     /\ ~(pre.gesture = HandGesture.OPEN /\ gesture = HandGesture.CLOSED))
    => currentStageIndex = pre.currentStageIndex

\* C3: the first CLOSED gesture before the experience has started sets
\* hasStarted and leaves the stage at index 1 (EARTH) with the EARTH colour,
\* whatever gesture (NONE or OPEN) was observed before it.
C3_FirstClosedStartsAtEarth ==
    (/\ lastEvent \in {"manual", "detector"}
     /\ ~pre.hasStarted
     /\ gesture = HandGesture.CLOSED)
    => /\ hasStarted
       /\ currentStageIndex = 1
       /\ particleColor = COLORS.EARTH

\* C4: from the last stage (FIREWORKS, index 5) an OPEN to CLOSED edge moves
\* the stage to index 1 (EARTH), and once the experience has started the stage
\* index is never 0 (INTRO) again.
C4_WrapsToEarthNeverIntro ==
    /\ hasStarted => currentStageIndex # 0
    /\ (/\ lastEvent \in {"manual", "detector"}
        /\ pre.hasStarted
        /\ pre.currentStageIndex = Len(STAGE_ORDER) - 1
        /\ pre.gesture = HandGesture.OPEN
        /\ gesture = HandGesture.CLOSED)
       => currentStageIndex = 1

\* C5: before the experience has started, OPEN and NONE gestures leave the
\* stage index at 0 and hasStarted false; only a CLOSED gesture or the start
\* button changes them.
C5_PreStartIgnoresOpenAndNone ==
    /\ (/\ lastEvent \in {"manual", "detector"}
        /\ ~pre.hasStarted
        /\ gesture \in {HandGesture.OPEN, HandGesture.NONE})
       => (currentStageIndex = 0 /\ ~hasStarted)
    /\ (~pre.hasStarted /\ (hasStarted \/ currentStageIndex # 0))
       => \/ lastEvent = "start"
          \/ lastEvent \in {"manual", "detector"} /\ gesture = HandGesture.CLOSED

\* C5 happens: the detector delivered OPEN after NONE before the start, and
\* the stage is still INTRO.
C5_Witness ==
    /\ lastEvent = "detector"
    /\ ~pre.hasStarted
    /\ pre.gesture = HandGesture.NONE
    /\ gesture = HandGesture.OPEN
    /\ currentStageIndex = 0
    /\ ~hasStarted

\* C6: whenever the stage changes, the particle colour is the default colour
\* of the new stage, even if the user had picked another colour before.
C6_StageChangeSelectsDefaultColor ==
    currentStageIndex # pre.currentStageIndex
    => /\ currentStageIndex # 0
       /\ particleColor = COLORS[StageAt(currentStageIndex)]

\* C6 happens: an OPEN to CLOSED edge advanced the stage by one while the
\* colour was one the user had picked.
C6_Witness ==
    /\ lastEvent = "manual"
    /\ pre.hasStarted
    /\ pre.particleColor = "#picked"
    /\ currentStageIndex = pre.currentStageIndex + 1
    /\ particleColor = COLORS[StageAt(currentStageIndex)]

\* C7: a user colour change leaves stage index, gesture and hasStarted
\* unchanged, and after the start a gesture from the manual buttons or the
\* HandDetector callback that does not change the stage leaves the colour
\* unchanged.
C7_ColorIndependentOfGesture ==
    /\ lastEvent = "color"
       => /\ currentStageIndex = pre.currentStageIndex
          /\ gesture = pre.gesture
          /\ hasStarted = pre.hasStarted
    /\ (/\ lastEvent \in {"manual", "detector"}
        /\ pre.hasStarted
        /\ currentStageIndex = pre.currentStageIndex)
       => particleColor = pre.particleColor

\* --------------------------------------------------------------- animator
\* C8 as stated: after every stage change outside the FIREWORKS+OPEN phase,
\* all 3N entries of the target buffer equal the shape generated for the new
\* stage, including when the new stage is FIREWORKS.
C8_TargetIsNewShape ==
    (/\ currentStageIndex # pre.currentStageIndex
     /\ ~(StageAt(currentStageIndex) = AppStage.FIREWORKS /\ gesture = HandGesture.OPEN))
    => targetPositions = shapes[StageAt(currentStageIndex)]

\* C8: a step that changes the stage to any stage but FIREWORKS leaves all 3N
\* entries of the target buffer equal to the shape generated for the new
\* stage; a step that changes the stage to FIREWORKS leaves the target buffer
\* as it was (the HEART shape), whatever the gesture.
C8_TargetIsNewShapeExceptFireworks ==
    [][ currentStageIndex' # currentStageIndex
        => IF StageAt(currentStageIndex') = AppStage.FIREWORKS
           THEN /\ targetPositions' = targetPositions
                /\ targetPositions' = shapes[AppStage.HEART]
           ELSE /\ targetPositions' = shapes[StageAt(currentStageIndex')]
                /\ Length(targetPositions') = 3 * PARTICLE_COUNT ]_vars

\* C8 happens: the stage changed from HEART to FIREWORKS with a closed fist
\* and the target buffer holds the HEART shape, which is not the shape
\* generated for FIREWORKS.
C8_Witness ==
    /\ pre.currentStageIndex = 4
    /\ StageAt(currentStageIndex) = AppStage.FIREWORKS
    /\ gesture = HandGesture.CLOSED
    /\ targetPositions = shapes[AppStage.HEART]
    /\ targetPositions # shapes[AppStage.FIREWORKS]

\* C9: the current, target and velocity buffers each hold exactly
\* 3 * PARTICLE_COUNT numbers in every reachable state, and so does every
\* shape that a stage change copies into the target buffer, the text shape
\* without a canvas context or without bright pixels included.
C9_BuffersHold3N ==
    /\ DOMAIN currentPositions = 0..(3 * PARTICLE_COUNT - 1)
    /\ DOMAIN targetPositions = 0..(3 * PARTICLE_COUNT - 1)
    /\ DOMAIN velocities = 0..(3 * PARTICLE_COUNT - 1)
    /\ \A st \in Stages : DOMAIN shapes[st] = 0..(3 * PARTICLE_COUNT - 1)

\* C9 happens: the stage changed to NAME, whose text shape is the all-zero
\* fallback, the target buffer received it, and a frame has moved the
\* particles.
C9_Witness ==
    /\ StageAt(currentStageIndex) = AppStage.NAME
    /\ shapes[AppStage.NAME] = Float32Array(3 * PARTICLE_COUNT)
    /\ targetPositions = shapes[AppStage.NAME]
    /\ targetPositions # shapes[AppStage.EVEREST]
    /\ frames > 0
    /\ currentPositions # Float32Array(3 * PARTICLE_COUNT)

\* C10: a frame callback invoked while the points object is not attached
\* changes no position, velocity, target or rotation, and a frame invoked
\* with the object attached performs the update: with a hand that is not
\* closed the rotation advances by 0.05 * delta.
C10_UnattachedFrameIsNoOp ==
    [][ /\ (lastEvent' = "frame" /\ ~pointsAttached)
           => UNCHANGED << currentPositions, velocities, targetPositions,
                           rotationY, explosionTime, seed, appVars >>
        /\ (lastEvent' = "frame" /\ pointsAttached /\ frames' # frames
            /\ gesture # HandGesture.CLOSED)
           => \E delta \in Deltas : rotationY' = rotationY + 50 * delta ]_vars

\* C10 happens: a frame ran before the points object was attached.
C10_Witness ==
    /\ lastEvent = "frame"
    /\ ~pointsAttached
    /\ frames = 0
    /\ rotationY = 0

\* --------------------------------------------------------------- detector
\* C11: for a detected hand the classifier gives CLOSED if and only if at
\* least 3 of the 4 fingertips (8, 12, 16, 20) lie strictly closer to the
\* wrist (0) than 1.1 times the distance from the wrist to landmark 9, and
\* OPEN otherwise; with no detected hand it gives NONE.
C11_ClassifierCountsFoldedTips ==
    results.kind = "ok"
    => LET hands == results.landmarks
           Near(lm) == { tip \in {8, 12, 16, 20} :
                           100 * HypotSquared(lm[tip], lm[0])
                             < 121 * HypotSquared(lm[9], lm[0]) }
       IN  /\ hands = << >> => lastGestureRef = HandGesture.NONE
           /\ hands # << >> =>
                /\ lastGestureRef = HandGesture.CLOSED <=> Cardinality(Near(hands[1])) >= 3
                /\ lastGestureRef = HandGesture.OPEN <=> Cardinality(Near(hands[1])) < 3

\* C11 happens: the detector classified a hand with exactly three tips inside
\* the threshold as CLOSED and passed it on.
C11_Witness ==
    /\ lastEvent = "detector"
    /\ results = Detected(<< Hand(Point(0, 0), Point(0, 10),
                                  << Point(6, 9), Point(7, 9), Point(0, 0), Point(6, 9) >>) >>)
    /\ lastGestureRef = HandGesture.CLOSED
    /\ gesture = HandGesture.CLOSED

\* C12: HandDetector emits a gesture only on change: it never calls
\* onGestureChange twice in a row with the same value, it does not emit NONE
\* before it has emitted some other gesture, and the value it passes is the
\* one it has just recorded in lastGestureRef.
C12_EmitsOnlyOnChange ==
    [][ /\ lastEvent' = "detector"
           => /\ lastEmitted' # lastEmitted
              /\ lastEmitted' = HandGesture.NONE => lastEmitted # "-"
              /\ lastEmitted' = lastGestureRef'
        /\ lastEmitted' # lastEmitted => lastEvent' = "detector" ]_vars

\* C12 happens: the detector emitted NONE after it had emitted another
\* gesture.
C12_Witness ==
    /\ lastEvent = "detector"
    /\ lastEmitted = HandGesture.NONE
    /\ pre.gesture # HandGesture.NONE
    /\ gesture = HandGesture.NONE

\* C13: a polling iteration in which no hand is tracked, or in which the
\* detection call throws, leaves NONE as the detector's current output and
\* does not surface as the error status.
C13_FailureIsTreatedAsNone ==
    /\ (lastEvent \in {"detector", "poll"} /\ results = Detected(<< >>))
       => lastGestureRef = HandGesture.NONE
    /\ lastEvent = "throw"
       => (lastGestureRef = HandGesture.NONE /\ status # "error")

\* C14: the shared gesture is last-write-wins: after any interleaving of
\* handleGestureChange calls from the polling loop and from the manual
\* buttons, the gesture equals the argument of the most recent call.
C14_LastWriteWins ==
    lastCall # "-" => gesture = lastCall

\* C14 happens: the manual RELEASE button wrote OPEN over the CLOSED that the
\* detector had written before.
C14_Witness ==
    /\ lastEvent = "manual"
    /\ lastCall = HandGesture.OPEN
    /\ lastEmitted = HandGesture.CLOSED
    /\ pre.gesture = HandGesture.CLOSED
    /\ gesture = HandGesture.OPEN

C17_GravityLowersVy ==
    [][ (lastEvent' = "frame" /\ frames' # frames /\ now - explosionTime >= 600)
        => \A i \in 0..(PARTICLE_COUNT - 1) :
              velocities'[i * 3 + 1] < velocities[i * 3 + 1] ]_vars

\* C18: at the end of every frame of FIREWORKS+OPEN the vertical position of
\* every particle is at least -10.
C18_FloorHolds ==
    lastEvent = "frame"
    => \A i \in 0..(PARTICLE_COUNT - 1) : currentPositions[i * 3 + 1] >= -10 * Unit

\* C18 happens: a falling particle was stopped at the floor.
C18_Witness ==
    /\ lastEvent = "frame"
    /\ \E i \in 0..(PARTICLE_COUNT - 1) :
          /\ currentPositions[i * 3 + 1] = -10 * Unit
          /\ velocities[i * 3 + 1] < 0

C20_ConvergesAtEveryStage ==
    /\ [][ LET Off(pos, k) == pos[k] - targetPositions[k]
               DistSq(pos, i) ==
                   Off(pos, i * 3) * Off(pos, i * 3)
                   + Off(pos, i * 3 + 1) * Off(pos, i * 3 + 1)
                   + Off(pos, i * 3 + 2) * Off(pos, i * 3 + 2)
               AtRest(i) ==
                   \A c \in 0..2 :
                      4 * Abs(Off(currentPositions, i * 3 + c)) * SixtiethOfSecond < Unit
           IN  ( /\ lastEvent' = "frame"
                 /\ frames' # frames
                 /\ gesture = HandGesture.CLOSED )
               => \A i \in 0..(PARTICLE_COUNT - 1) :
                     \/ DistSq(currentPositions', i) < DistSq(currentPositions, i)
                     \/ /\ AtRest(i)
                        /\ DistSq(currentPositions', i) = DistSq(currentPositions, i) ]_vars
    /\ []( ( /\ frames >= ConvergeFrameLimit
             /\ gesture = HandGesture.CLOSED )
           => \A k \in 0..(3 * PARTICLE_COUNT - 1) :
                 Abs(currentPositions[k] - targetPositions[k]) * 2 < Epsilon )

\* C20 (amended): with the target fixed, the gesture CLOSED and delta = 1/60 s,
\* at every stage other than EARTH the distance of each particle to its target strictly
\* decreases in every frame, until the step of the lerp is below the
\* resolution of the arithmetic; after ConvergeFrameLimit frames every
\* coordinate is within Epsilon / 2 of its target, so the distance is below
\* Epsilon.
C20_ConvergesExceptAtEarth ==
    /\ [][ LET Off(pos, k) == pos[k] - targetPositions[k]
               DistSq(pos, i) ==
                   Off(pos, i * 3) * Off(pos, i * 3)
                   + Off(pos, i * 3 + 1) * Off(pos, i * 3 + 1)
                   + Off(pos, i * 3 + 2) * Off(pos, i * 3 + 2)
               AtRest(i) ==
                   \A c \in 0..2 :
                      4 * Abs(Off(currentPositions, i * 3 + c)) * SixtiethOfSecond < Unit
           IN  ( /\ lastEvent' = "frame"
                 /\ frames' # frames
                 /\ gesture = HandGesture.CLOSED
                 /\ StageAt(currentStageIndex) # AppStage.EARTH )
               => \A i \in 0..(PARTICLE_COUNT - 1) :
                     \/ DistSq(currentPositions', i) < DistSq(currentPositions, i)
                     \/ /\ AtRest(i)
                        /\ DistSq(currentPositions', i) = DistSq(currentPositions, i) ]_vars
    /\ []( ( /\ frames >= ConvergeFrameLimit
             /\ gesture = HandGesture.CLOSED
             /\ StageAt(currentStageIndex) # AppStage.EARTH )
           => \A k \in 0..(3 * PARTICLE_COUNT - 1) :
                 Abs(currentPositions[k] - targetPositions[k]) * 2 < Epsilon )

\* C20 happens: ninety frames of EVEREST+CLOSED brought a particle that
\* started more than a unit away to within Epsilon of its target.
C20_Witness ==
    /\ lastEvent = "frame"
    /\ frames = ConvergeFrameLimit
    /\ StageAt(currentStageIndex) = AppStage.EVEREST
    /\ gesture = HandGesture.CLOSED
    /\ \E k \in 0..(3 * PARTICLE_COUNT - 1) :
          /\ Abs(targetPositions[k]) > Unit
          /\ Abs(targetPositions[k] - currentPositions[k]) * 2 < Epsilon

\* C24: the audio triggers fire on gesture transitions only: exactly one
\* converge for a change of the gesture to CLOSED, exactly one disperse for
\* a change of the gesture to OPEN while the stage is not INTRO, and none in
\* a step without a gesture change, a stage change included.
C24_OneTriggerPerGestureChange ==
    lastEvent \in {"manual", "detector", "start", "color", "poll", "throw"}
    => played =
          IF gesture # pre.gesture /\ gesture = HandGesture.CLOSED
          THEN << "converge" >>
          ELSE IF /\ gesture # pre.gesture
                  /\ gesture = HandGesture.OPEN
                  /\ StageAt(currentStageIndex) # AppStage.INTRO
          THEN << "disperse" >>
          ELSE << >>

\* C28: the stage index is within 0..5, hasStarted is false exactly when the
\* stage index is 0, and hasStarted never returns to false.
C28_StartedIffPastIntro ==
    /\ []( /\ currentStageIndex \in 0..(Len(STAGE_ORDER) - 1)
           /\ Len(STAGE_ORDER) = 6
           /\ hasStarted <=> currentStageIndex # 0 )
    /\ [][ hasStarted => hasStarted' ]_vars

\* C28 happens: the OPEN to CLOSED edge at the last stage wrapped the index
\* to 1.
C28_Witness ==
    /\ lastEvent = "manual"
    /\ pre.currentStageIndex = Len(STAGE_ORDER) - 1
    /\ currentStageIndex = 1
    /\ hasStarted

\* C29: after the start the stage index changes only in a step that leaves
\* the gesture CLOSED; a step that leaves it OPEN or NONE keeps the stage
\* index, so a newly entered stage begins with the particles converging.
C29_StageChangesOnlyWhenClosed ==
    [][ (hasStarted /\ currentStageIndex' # currentStageIndex)
        => gesture' = HandGesture.CLOSED ]_vars

\* C29 happens: a started experience moved on to NAME in a step that left
\* the gesture CLOSED.
C29_Witness ==
    /\ pre.hasStarted
    /\ pre.currentStageIndex = 2
    /\ currentStageIndex = 3
    /\ gesture = HandGesture.CLOSED

\* C27: a frame rotates the particles about the vertical axis if and only if
\* the stage is EARTH and the gesture is CLOSED: then every X and Z is the
\* rotation by 0.5 x delta of the lerped X and Z, and in every other frame
\* outside the finale the coordinates are the lerped ones.  A frame advances
\* the rotation angle of the whole field if and only if the gesture is not
\* CLOSED, the frames of the finale included.
C27_RotationConditions ==
    [][ (lastEvent' = "frame" /\ frames' # frames)
        => /\ rotationY' # rotationY <=> gesture # HandGesture.CLOSED
           /\ \E delta \in Deltas :
                 /\ rotationY' \in {rotationY, rotationY + 50 * delta}
                 /\ ~(StageAt(currentStageIndex) = AppStage.FIREWORKS
                      /\ gesture = HandGesture.OPEN)
                    => \A i \in 0..(PARTICLE_COUNT - 1) :
                          LET closed == gesture = HandGesture.CLOSED
                              stage == StageAt(currentStageIndex)
                              x == LerpStep(currentPositions, targetPositions, i * 3,
                                            stage, closed, delta, seed)
                              z == LerpStep(currentPositions, targetPositions, i * 3 + 2,
                                            stage, closed, delta, seed)
                              a == delta \div 2
                          IN  IF stage = AppStage.EARTH /\ closed
                              THEN /\ currentPositions'[i * 3] =
                                         Div(x * Cos(a) - z * Sin(a), Unit)
                                   /\ currentPositions'[i * 3 + 2] =
                                         Div(x * Sin(a) + z * Cos(a), Unit)
                              ELSE /\ currentPositions'[i * 3] = x
                                   /\ currentPositions'[i * 3 + 2] = z ]_vars

\* C27 happens: the first frame, at EARTH+CLOSED, left a particle where the
\* lerp alone would not have put it, and left the field's angle alone.
C27_Witness ==
    /\ lastEvent = "frame"
    /\ frames = 1
    /\ StageAt(currentStageIndex) = AppStage.EARTH
    /\ gesture = HandGesture.CLOSED
    /\ rotationY = 0
    /\ \E k \in 0..(3 * PARTICLE_COUNT - 1) :
          \A delta \in Deltas :
             currentPositions[k] # LerpStep(Float32Array(3 * PARTICLE_COUNT),
                                            targetPositions, k, AppStage.EARTH,
                                            TRUE, delta, seed)

\* C30: the stored X and Z velocities change only on an entry into
\* FIREWORKS+OPEN: no frame of the finale changes them, and a frame changes
\* the stored Y velocity only in the explosion phase.
C30_HorizontalVelocityKept ==
    [][ \A i \in 0..(PARTICLE_COUNT - 1) :
           /\ ( \/ velocities'[i * 3] # velocities[i * 3]
                \/ velocities'[i * 3 + 2] # velocities[i * 3 + 2] )
              => /\ lastEvent' \in {"manual", "detector"}
                 /\ StageAt(currentStageIndex') = AppStage.FIREWORKS
                 /\ gesture' = HandGesture.OPEN
                 /\ ~(StageAt(currentStageIndex) = AppStage.FIREWORKS
                      /\ gesture = HandGesture.OPEN)
           /\ (lastEvent' = "frame" /\ velocities'[i * 3 + 1] # velocities[i * 3 + 1])
              => now - explosionTime >= 600 ]_vars

\* C30 happens: a frame of the burst window changed the stored Y velocity
\* of a particle whose stored X velocity is not zero.
C30_Witness ==
    /\ lastEvent = "frame"
    /\ now - explosionTime = 600
    /\ \E i \in 0..(PARTICLE_COUNT - 1) :
          /\ velocities[i * 3 + 1] < 5 * Unit
          /\ velocities[i * 3] # 0

\* C21 (as stated): for the sphere generator with N points (N at least 2) the
\* inclinations of two points with adjacent indices differ by at most 2/N.
C21_AdjacentInclinationsWithin2OverN ==
    probe.fn = "generateSphere"
    => \A i \in 0..(probe.count - 2) :
          LET d == Abs(probe.y[i + 1] - probe.y[i])
          IN  d * probe.count <= 2 * Unit

\* C21 (amended): for the sphere generator with N points (N at least 2) the
\* inclinations of two points with adjacent indices differ by 2/(N-1), to
\* the resolution of the arithmetic (two thousandths).
C21_AdjacentInclinationsStepBy2OverNMinus1 ==
    probe.fn = "generateSphere"
    => \A i \in 0..(probe.count - 2) :
          LET d == Abs(probe.y[i + 1] - probe.y[i])
          IN  /\ (d - 2) * (probe.count - 1) < 2 * Unit
              /\ (d + 2) * (probe.count - 1) > 2 * Unit

\* C21 happens: generateSphere was called for more than two points, whose
\* inclinations run from 1 down to -1.
C21_Witness ==
    /\ probe.fn = "generateSphere"
    /\ probe.count > 2
    /\ probe.y[0] = Unit
    /\ probe.y[probe.count - 1] = -Unit

\* C22: the text generator returns exactly 3N zeros whenever the 2D context
\* is unavailable or the bitmap has no pixel above the brightness threshold.
C22_TextFallsBackToZeros ==
    ( /\ probe.fn = "generateText"
      /\ \/ ~probe.canvas.context
         \/ \A j \in 1..Len(probe.canvas.pixels) :
               probe.canvas.pixels[j][2] <= TextThreshold )
    => probe.out = [k \in 0..(3 * probe.count - 1) |-> 0]

\* C22 happens: the text was drawn and its only lit pixel is exactly at the
\* threshold.
C22_Witness ==
    /\ probe.fn = "generateText"
    /\ probe.count > 1
    /\ probe.canvas.context
    /\ Len(probe.canvas.pixels) = 1
    /\ probe.canvas.pixels[1][2] = TextThreshold
    /\ probe.out = [k \in 0..(3 * probe.count - 1) |-> 0]

\* C23: whenever the teardown of HandDetector falls among the steps of its
\* initialisation, after it no polling iteration runs and onGestureChange is
\* not called again, and every landmarker and camera stream, acquired before
\* the teardown or after it, is closed or stopped.
C23_TeardownStopsDetector ==
    /\ []( (~running /\ setup # "-")
           => /\ handLandmarker # "open"
              /\ stream # "live"
              /\ ~pollScheduled
              /\ ~timeout )
    /\ [][ (~running /\ setup # "-")
           => /\ lastEvent' \notin {"detector", "poll", "throw"}
              /\ lastEmitted' = lastEmitted
              /\ lastCall' = lastCall
              /\ gesture' = gesture ]_vars

\* C23 happens: the detector was torn down while getUserMedia was pending;
\* the cleanup closed the landmarker and the stream, granted afterwards, was
\* stopped.
C23_Witness ==
    /\ ~running
    /\ setup = "done"
    /\ handLandmarker = "closed"
    /\ stream = "stopped"
    /\ ~srcObject

\* C25: the 15 s timer moves the status to 'error' only if the detector is
\* still in 'loading' when it fires; a detector that is 'ready' stays 'ready'
\* and keeps polling.
C25_TimeoutOnlyWhileLoading ==
    [][ lastEvent' = "timeout"
        => /\ (status' = "error" /\ status # "error") => status = "loading"
           /\ status = "ready" => (status' = "ready" /\ VideoPresent') ]_vars

\* C26: while the detector is running and its video element is present,
\* every polling iteration schedules the next one, an iteration in which
\* detectForVideo throws included.
C26_EveryIterationReschedules ==
    [][ (running /\ VideoPresent /\ lastEvent' \in {"detector", "poll", "throw"})
        => pollScheduled' ]_vars

====
